---- MODULE Spec2Model ----
(***************************************************************************)
(* uvicorn.config.conf.Config: construction (__init__, with the reload     *)
(* scope), load() and bind_socket(), as a state machine over one Config    *)
(* instance and the process that owns it.                                  *)
(***************************************************************************)
EXTENDS Integers, Sequences, FiniteSets, TLC

VARIABLES
    pc,            \* "new": arguments chosen, Config not built; "ready"; "exited"
    args,          \* the arguments given to Config(...)
    self,          \* the Config instance's attributes
    logger_level,  \* logging.getLogger("uvicorn.error").level
    log,           \* records emitted through logger, oldest first
    exit_status,   \* <<>> while running, <<n>> after sys.exit(n)
    result,        \* the last call on the instance: operation, outcome, records logged
    ncalls         \* calls made on the instance so far

vars == <<pc, args, self, logger_level, log, exit_status, result, ncalls>>

----------------------------------------------------------------------------
(* Bounds of the model.                                                    *)

\* total number of entries over reload_dirs, reload_includes, reload_excludes
MaxEntries == 3
\* calls of load() / bind_socket() made on one instance
MaxCalls == 2

----------------------------------------------------------------------------
(* Python values.                                                          *)

None == <<>>
Some(x) == <<x>>
\* truth value of an Optional[str] / Optional[int]
TruthyStr(opt) == opt # None /\ opt[1] # ""
TruthyInt(opt) == opt # None /\ opt[1] # 0

Str(s) == [tag |-> "str", v |-> s]
Type(t) == [tag |-> "type", v |-> t]
isinstance_str(x) == x.tag = "str"

Range(s) == {s[i] : i \in 1..Len(s)}

\* list(set(xs)): the elements of xs, each once
RECURSIVE Dedup(_)
Dedup(xs) ==
    IF xs = <<>> THEN <<>>
    ELSE LET rest == Dedup(Tail(xs))
         IN  IF Head(xs) \in Range(rest) THEN rest ELSE <<Head(xs)>> \o rest

\* list.remove(x): drops the first occurrence of x; ValueError when x is absent
RECURSIVE list_remove(_, _)
list_remove(xs, x) ==
    IF xs = <<>> THEN <<>>
    ELSE IF Head(xs) = x THEN Tail(xs)
    ELSE <<Head(xs)>> \o list_remove(Tail(xs), x)

Entry(level, msg, a) == [level |-> level, msg |-> msg, args |-> a]

----------------------------------------------------------------------------
(* The file system the process runs in.  A path is the sequence of its     *)
(* components below the root.                                              *)

cwd == <<"srv", "proj">>

ExistingDirs ==
    { <<>>, <<"srv">>, <<"srv", "proj">>, <<"srv", "proj", "app">>,
      <<"srv", "proj", "app", "sub">>, <<"srv", "proj", "tests">> }

\* Path(entry).resolve(), relative entries resolved against cwd
PathOf(entry) ==
    CASE entry = "."       -> cwd
      [] entry = ".."      -> <<"srv">>
      [] entry = "app"     -> cwd \o <<"app">>
      [] entry = "app/sub" -> cwd \o <<"app", "sub">>
      [] entry = "tests"   -> cwd \o <<"tests">>
      [] OTHER             -> cwd \o <<entry>>

is_dir(path) == path \in ExistingDirs

\* d in p.parents: d is a strict ancestor of p
InParents(d, p) == Len(d) < Len(p) /\ SubSeq(p, 1, Len(d)) = d

----------------------------------------------------------------------------
(* utils._normalize_dirs and utils.resolve_reload_patterns.                *)

_normalize_dirs(raw) ==
    CASE raw.tag = "none" -> <<>>
      [] raw.tag = "str"  -> raw.v
      [] OTHER            -> raw.v

\* the pattern strings of patterns_list (those that name no existing
\* directory), each once
ResolvedPatterns(patterns_list) ==
    Dedup(SelectSeq(patterns_list, LAMBDA e : ~is_dir(PathOf(e))))

\* the existing directories named by directories_list and patterns_list, as
\* absolute paths, each once
ResolvedDirectories(patterns_list, directories_list) ==
    LET named == directories_list \o patterns_list
        abs   == [i \in 1..Len(named) |-> PathOf(named[i])]
    IN  Dedup(SelectSeq(abs, is_dir))

resolve_reload_patterns(patterns_list, directories_list) ==
    << ResolvedPatterns(patterns_list),
       ResolvedDirectories(patterns_list, directories_list) >>

----------------------------------------------------------------------------
(* Config.__init__.                                                        *)

\* mappings.LOG_LEVELS
LOG_LEVELS(name) ==
    CASE name = "critical" -> 50
      [] name = "error"    -> 40
      [] name = "warning"  -> 30
      [] name = "info"     -> 20
      [] name = "debug"    -> 10
      [] name = "trace"    -> 5

\* uvicorn.logging.TRACE_LOG_LEVEL
TRACE_LOG_LEVEL == 5

\* defaults.LOGGING_CONFIG, reduced to the level it gives "uvicorn.error"
LOGGING_CONFIG == [uvicorn_error_level |-> 20]

\* configure_logging: the level of the "uvicorn.error" logger afterwards, for
\* log_config given as a dict or None
configure_logging(a, level) ==
    LET configured == IF a.log_config # None
                      THEN a.log_config[1].uvicorn_error_level
                      ELSE level
    IN  CASE a.log_level.tag = "none" -> configured
          [] a.log_level.tag = "str"  -> LOG_LEVELS(a.log_level.s)
          [] OTHER                    -> a.log_level.n

should_reload(app, reload) == isinstance_str(app) /\ reload

\* truth value of a raw reload_dirs / reload_includes / reload_excludes
TruthyRaw(raw) ==
    CASE raw.tag = "none" -> FALSE
      [] raw.tag = "str"  -> raw.v[1] # ""
      [] OTHER            -> raw.v # <<>>

\* the inner loop of lines 182-190 for one excluded directory
RECURSIVE RemoveUnder(_, _, _)
RemoveUnder(dirs, directory, reload_dirs_tmp) ==
    IF reload_dirs_tmp = <<>> THEN dirs
    ELSE LET reload_directory == Head(reload_dirs_tmp)
             kept == IF \/ directory = reload_directory
                        \/ InParents(directory, reload_directory)
                     THEN list_remove(dirs, reload_directory)
                     ELSE dirs
         IN  RemoveUnder(kept, directory, Tail(reload_dirs_tmp))

\* the loop of lines 181-190 over reload_dirs_excludes
RECURSIVE ExcludeDirs(_, _, _)
ExcludeDirs(dirs, reload_dirs_excludes, reload_dirs_tmp) ==
    IF reload_dirs_excludes = <<>> THEN dirs
    ELSE ExcludeDirs(RemoveUnder(dirs, Head(reload_dirs_excludes), reload_dirs_tmp),
                     Tail(reload_dirs_excludes), reload_dirs_tmp)

\* a loop that stops after the first exclude pattern
ExcludePatternsFirstOnly(includes, excludes) ==
    IF excludes = <<>> THEN includes
    ELSE IF Head(excludes) \in Range(includes)
         THEN list_remove(includes, Head(excludes))
         ELSE includes

\* the loop of lines 192-194 over reload_excludes
RECURSIVE ExcludePatterns(_, _)
ExcludePatterns(includes, excludes) ==
    IF excludes = <<>> THEN includes
    ELSE LET pattern == Head(excludes)
             kept == IF pattern \in Range(includes)
                     THEN list_remove(includes, pattern)
                     ELSE includes
         IN  ExcludePatterns(kept, Tail(excludes))

\* lines 196-203: the watch list, or the working directory when it is empty
FallbackDirs(dirs) == IF dirs = <<>> THEN <<cwd>> ELSE dirs

\* lines 166-208: the four reload lists and the records logged
ReloadScope(a) ==
    LET reload_dirs     == _normalize_dirs(a.reload_dirs)
        reload_includes == _normalize_dirs(a.reload_includes)
        reload_excludes == _normalize_dirs(a.reload_excludes)
        inc   == resolve_reload_patterns(reload_includes, reload_dirs)
        exc   == resolve_reload_patterns(reload_excludes, <<>>)
        dirs  == ExcludeDirs(inc[2], exc[2], inc[2])
        final == FallbackDirs(dirs)
    IN  [ reload_includes      |-> ExcludePatterns(inc[1], exc[1]),
          reload_dirs          |-> final,
          reload_excludes      |-> exc[1],
          reload_dirs_excludes |-> exc[2],
          log |-> (IF dirs = <<>> /\ reload_dirs # <<>>
                   THEN <<Entry("warning", "Provided reload directories did not contain valid directories", reload_dirs)>>
                   ELSE <<>>)
                  \o <<Entry("info", "Will watch for changes in these directories", final)>> ]

NoReloadScope ==
    [ reload_includes |-> <<>>, reload_dirs |-> <<>>, reload_excludes |-> <<>>,
      reload_dirs_excludes |-> <<>>, log |-> <<>> ]

\* lines 216-217 after line 127
Workers(a) ==
    IF a.workers = None /\ a.environ.WEB_CONCURRENCY # None
    THEN a.environ.WEB_CONCURRENCY[1]
    ELSE IF TruthyInt(a.workers) THEN a.workers[1] ELSE 1

\* lines 219-225
ForwardedAllowIps(a) ==
    IF a.forwarded_allow_ips = None
    THEN IF a.environ.FORWARDED_ALLOW_IPS # None
         THEN a.environ.FORWARDED_ALLOW_IPS[1] ELSE "127.0.0.1"
    ELSE a.forwarded_allow_ips[1]

NoneV == [tag |-> "none", v |-> "None"]

\* the instance and the log records __init__ leaves behind
Config__init__(a) ==
    LET sr    == should_reload(a.app, a.reload)
        scope == IF sr THEN ReloadScope(a) ELSE NoReloadScope
        w     == Workers(a)
    IN  [ self |->
            [ app |-> a.app, host |-> a.host, port |-> a.port, uds |-> a.uds,
              fd |-> a.fd, http |-> a.http, ws |-> a.ws, lifespan |-> a.lifespan,
              interface |-> a.interface, reload |-> a.reload, workers |-> w,
              proxy_headers |-> a.proxy_headers, server_header |-> a.server_header,
              ssl_keyfile |-> a.ssl_keyfile, ssl_certfile |-> a.ssl_certfile,
              headers |-> a.headers, encoded_headers |-> <<>>,
              factory |-> a.factory, loaded |-> FALSE,
              reload_dirs |-> scope.reload_dirs,
              reload_dirs_excludes |-> scope.reload_dirs_excludes,
              reload_includes |-> scope.reload_includes,
              reload_excludes |-> scope.reload_excludes,
              forwarded_allow_ips |-> ForwardedAllowIps(a),
              \* created by load(); assigned names them once they exist
              assigned |-> {}, ssl |-> None,
              http_protocol_class |-> NoneV, ws_protocol_class |-> NoneV,
              lifespan_class |-> NoneV, loaded_app |-> <<>> ],
          log |->
            (IF (TruthyRaw(a.reload_dirs) \/ TruthyRaw(a.reload_includes)
                    \/ TruthyRaw(a.reload_excludes)) /\ ~sr
             THEN <<Entry("warning", "Current configuration will not reload", <<>>)>>
             ELSE <<>>)
            \o scope.log
            \o (IF a.reload /\ w > 1
                THEN <<Entry("warning", "workers flag is ignored when reloading is enabled", <<>>)>>
                ELSE <<>>) ]

----------------------------------------------------------------------------
(* What load() imports: the registries of mappings.py, importer's          *)
(* import_from_string, and the objects an application reference names.     *)

Obj(name) == [tag |-> "obj", v |-> name]

HTTP_PROTOCOLS ==
    [ auto      |-> Str("uvicorn.protocols.http.auto:AutoHTTPProtocol"),
      h11       |-> Str("uvicorn.protocols.http.h11_impl:H11Protocol"),
      httptools |-> Str("uvicorn.protocols.http.httptools_impl:HttpToolsProtocol") ]

WS_PROTOCOLS ==
    [ auto       |-> Str("uvicorn.protocols.websockets.auto:AutoWebSocketsProtocol"),
      none       |-> NoneV,
      websockets |-> Str("uvicorn.protocols.websockets.websockets_impl:WebSocketProtocol"),
      wsproto    |-> Str("uvicorn.protocols.websockets.wsproto_impl:WSProtocol") ]

LIFESPAN ==
    [ auto |-> Str("uvicorn.lifespan.on:LifespanOn"),
      on   |-> Str("uvicorn.lifespan.on:LifespanOn"),
      off  |-> Str("uvicorn.lifespan.off:LifespanOff") ]

\* what each importable reference names; httptools and wsproto are optional
\* dependencies and are not installed here
Importable ==
    [ r \in { "uvicorn.protocols.http.auto:AutoHTTPProtocol",
              "uvicorn.protocols.http.h11_impl:H11Protocol",
              "uvicorn.protocols.websockets.auto:AutoWebSocketsProtocol",
              "uvicorn.protocols.websockets.websockets_impl:WebSocketProtocol",
              "uvicorn.lifespan.on:LifespanOn",
              "uvicorn.lifespan.off:LifespanOff" } |-> Type(r) ]
    @@ [ r \in {"main:app"}        |-> Obj("async_fn") ]
    @@ [ r \in {"main:legacy"}     |-> Obj("sync_obj") ]
    @@ [ r \in {"main:create_app"} |-> Obj("factory_fn") ]

\* the objects an application argument can be: what inspect sees of each, and
\* what calling it with no argument does ("TypeError", another exception, or
\* the name of the object returned)
Object(kind, has_await, is_coroutine, call_is_coroutine, call0) ==
    [ kind |-> kind, has_await |-> has_await, is_coroutine |-> is_coroutine,
      call_is_coroutine |-> call_is_coroutine, call0 |-> call0 ]

Objects ==
    [ async_fn    |-> Object("function", FALSE, TRUE,  FALSE, "TypeError"),
      sync_fn     |-> Object("function", FALSE, FALSE, FALSE, "TypeError"),
      await_cls   |-> Object("class",    TRUE,  FALSE, FALSE, "TypeError"),
      plain_cls   |-> Object("class",    FALSE, FALSE, FALSE, "TypeError"),
      async_obj   |-> Object("object",   FALSE, FALSE, TRUE,  "TypeError"),
      sync_obj    |-> Object("object",   FALSE, FALSE, FALSE, "TypeError"),
      factory_fn  |-> Object("function", FALSE, FALSE, FALSE, "async_obj"),
      factory_cls |-> Object("class",    FALSE, FALSE, FALSE, "sync_obj"),
      broken_fn   |-> Object("function", FALSE, FALSE, FALSE, "RuntimeError") ]

Raised(exc) == [exc |-> exc, value |-> NoneV]
Returned(value) == [exc |-> "", value |-> value]

\* registry[key]
Lookup(registry, key) ==
    IF key.tag = "str" /\ key.v \in DOMAIN registry
    THEN Returned(registry[key.v]) ELSE Raised("KeyError")

\* importer.import_from_string: anything but a string is returned as it is
import_from_string(import_str) ==
    IF ~isinstance_str(import_str) THEN Returned(import_str)
    ELSE IF import_str.v \in DOMAIN Importable
         THEN Returned(Importable[import_str.v])
         ELSE Raised("ImportFromStringError")

\* import_from_string(registry[key])
Resolve(registry, key) ==
    LET ref == Lookup(registry, key)
    IN  IF ref.exc # "" THEN ref ELSE import_from_string(ref.value)

----------------------------------------------------------------------------
(* Config.load, statement by statement.  A step takes and returns          *)
(* [self, log, out, lookups]; out is "running" until the call returns,     *)
(* raises (the exception's name) or calls sys.exit ("exit").               *)

Assign(m, name, value) ==
    [m EXCEPT !.self = [@ EXCEPT ![name] = value, !.assigned = @ \cup {name}]]

Raise(m, exc) == [m EXCEPT !.out = exc]

Logged(m, level, msg, a) == [m EXCEPT !.log = Append(@, Entry(level, msg, a))]

is_ssl(c) == TruthyStr(c.ssl_keyfile) \/ TruthyStr(c.ssl_certfile)

\* utils.create_ssl_context
create_ssl_context(keyfile, certfile) == [keyfile |-> keyfile, certfile |-> certfile]

\* a load() without line 292
LoadGuardMissing(m) == m

\* line 292
LoadGuard(m) ==
    IF m.self.loaded THEN Raise(m, "AssertionError") ELSE m

\* lines 294-306
LoadSsl(m) ==
    IF m.out # "running" THEN m
    ELSE IF is_ssl(m.self)
         THEN IF ~TruthyStr(m.self.ssl_certfile) THEN Raise(m, "AssertionError")
              ELSE Assign(m, "ssl", Some(create_ssl_context(m.self.ssl_keyfile,
                                                            m.self.ssl_certfile)))
         ELSE Assign(m, "ssl", None)

\* str.lower() of a header name
Lower(key) ==
    CASE key = "Server" -> "server"
      [] key = "X-App"  -> "x-app"
      [] OTHER          -> key

\* lines 308-316
LoadHeaders(m) ==
    IF m.out # "running" THEN m
    ELSE LET hs == m.self.headers
             encoded_headers ==
                 [i \in 1..Len(hs) |-> [key |-> Lower(hs[i][1]), value |-> hs[i][2]]]
             has_server == \E i \in 1..Len(hs) : encoded_headers[i].key = "server"
         IN  Assign(m, "encoded_headers",
                    IF ~has_server /\ m.self.server_header
                    THEN <<[key |-> "server", value |-> "uvicorn"]>> \o encoded_headers
                    ELSE encoded_headers)

\* one binding resolved through its registry and stored in attribute attr
ViaRegistry(m, binding, attr, registry, key) ==
    LET r  == Resolve(registry, key)
        m1 == [m EXCEPT !.lookups = Append(@, binding)]
    IN  IF r.exc # "" THEN Raise(m1, r.exc) ELSE Assign(m1, attr, r.value)

\* an HTTP binding that always goes through the registry
LoadHttpAlwaysRegistry(m) ==
    IF m.out # "running" THEN m
    ELSE ViaRegistry(m, "http", "http_protocol_class", HTTP_PROTOCOLS, m.self.http)

\* lines 318-322
LoadHttp(m) ==
    IF m.out # "running" THEN m
    ELSE IF isinstance_str(m.self.http)
         THEN ViaRegistry(m, "http", "http_protocol_class", HTTP_PROTOCOLS, m.self.http)
         ELSE Assign(m, "http_protocol_class", m.self.http)

\* lines 324-328
LoadWs(m) ==
    IF m.out # "running" THEN m
    ELSE IF isinstance_str(m.self.ws)
         THEN ViaRegistry(m, "ws", "ws_protocol_class", WS_PROTOCOLS, m.self.ws)
         ELSE Assign(m, "ws_protocol_class", m.self.ws)

\* line 330
LoadLifespan(m) ==
    IF m.out # "running" THEN m
    ELSE ViaRegistry(m, "lifespan", "lifespan_class", LIFESPAN, m.self.lifespan)

Layer(name, p) == [layer |-> name, p |-> p]

\* the application handle at the bottom of the chain self.loaded_app
Handle(c) == c.loaded_app[1].p

\* lines 332-336
LoadApp(m) ==
    IF m.out # "running" THEN m
    ELSE LET r == import_from_string(m.self.app)
         IN  IF r.exc = "ImportFromStringError"
             THEN Raise(Logged(m, "error", "Error loading ASGI app", <<>>), "exit")
             ELSE Assign(m, "loaded_app", <<Layer("app", r.value.v)>>)

\* lines 338-349
LoadFactory(m) ==
    IF m.out # "running" THEN m
    ELSE LET called == Objects[Handle(m.self)].call0
         IN  IF called = "TypeError"
             THEN IF m.self.factory
                  THEN Raise(Logged(m, "error", "Error loading ASGI app factory", <<>>),
                             "exit")
                  ELSE m
             ELSE IF called \notin DOMAIN Objects
             THEN Raise(m, called)
             ELSE LET m1 == Assign(m, "loaded_app", <<Layer("app", called)>>)
                  IN  IF ~m.self.factory
                      THEN Logged(m1, "warning", "ASGI app factory detected", <<>>)
                      ELSE m1

\* lines 352-358
use_asgi_3(obj) ==
    CASE obj.kind = "class"    -> obj.has_await
      [] obj.kind = "function" -> obj.is_coroutine
      [] OTHER                 -> obj.call_is_coroutine

\* lines 351-359
LoadInterface(m) ==
    IF m.out # "running" THEN m
    ELSE IF m.self.interface = "auto"
         THEN [m EXCEPT !.self.interface =
                   IF use_asgi_3(Objects[Handle(m.self)]) THEN "asgi3" ELSE "asgi2"]
         ELSE m

\* an adapter step that leaves the WebSocket class alone
LoadAdapterKeepsWs(m) ==
    IF m.out # "running" THEN m
    ELSE IF m.self.interface = "wsgi"
         THEN Assign(m, "loaded_app", Append(m.self.loaded_app, Layer("WSGIMiddleware", "")))
         ELSE IF m.self.interface = "asgi2"
         THEN Assign(m, "loaded_app", Append(m.self.loaded_app, Layer("ASGI2Middleware", "")))
         ELSE m

\* lines 361-365
LoadAdapter(m) ==
    IF m.out # "running" THEN m
    ELSE IF m.self.interface = "wsgi"
         THEN Assign(Assign(m, "loaded_app",
                            Append(m.self.loaded_app, Layer("WSGIMiddleware", ""))),
                     "ws_protocol_class", NoneV)
         ELSE IF m.self.interface = "asgi2"
         THEN Assign(m, "loaded_app", Append(m.self.loaded_app, Layer("ASGI2Middleware", "")))
         ELSE m

\* wrappers applied in the other order
LoadWrappersSwapped(m) ==
    IF m.out # "running" THEN m
    ELSE LET m1 == IF m.self.proxy_headers
                   THEN Assign(m, "loaded_app",
                               Append(m.self.loaded_app,
                                      Layer("ProxyHeadersMiddleware",
                                            m.self.forwarded_allow_ips)))
                   ELSE m
         IN  IF m.level <= TRACE_LOG_LEVEL
             THEN Assign(m1, "loaded_app",
                         Append(m1.self.loaded_app, Layer("MessageLoggerMiddleware", "")))
             ELSE m1

\* lines 367-372
LoadWrappers(m) ==
    IF m.out # "running" THEN m
    ELSE LET m1 == IF m.level <= TRACE_LOG_LEVEL
                   THEN Assign(m, "loaded_app",
                               Append(m.self.loaded_app,
                                      Layer("MessageLoggerMiddleware", "")))
                   ELSE m
         IN  IF m1.self.proxy_headers
             THEN Assign(m1, "loaded_app",
                         Append(m1.self.loaded_app,
                                Layer("ProxyHeadersMiddleware",
                                      m1.self.forwarded_allow_ips)))
             ELSE m1

\* line 374
LoadFinish(m) ==
    IF m.out # "running" THEN m
    ELSE [m EXCEPT !.self.loaded = TRUE, !.out = "returned"]

\* Config.load
Config_load(c, lg, level) ==
    LET m0 == [self |-> c, log |-> lg, out |-> "running", lookups |-> <<>>,
               level |-> level]
    IN  LoadFinish(LoadWrappers(LoadAdapter(LoadInterface(LoadFactory(LoadApp(
            LoadLifespan(LoadWs(LoadHttp(LoadHeaders(LoadSsl(LoadGuard(m0))))))))))))

----------------------------------------------------------------------------
(* Config.bind_socket, and the sockets of the host it runs on.             *)

\* Unix paths and TCP ports another process already holds: bind() raises OSError
BusyPaths == {"/run/taken.sock"}
BusyPorts == {80}
\* descriptors open in this process: socket.fromfd raises OSError on any other
OpenFds == {0, 3}

\* sock.getsockname() of the socket behind an open descriptor
SockName(fd) == IF fd = 0 THEN "/run/activated.sock" ELSE "/run/parent.sock"

\* sock.getsockname()[1] after a successful bind to port
BoundPort(port) == IF port = 0 THEN 49152 ELSE port

Socket(via, family, binds, reuseaddr) ==
    [ via |-> via, family |-> family, binds |-> binds, reuseaddr |-> reuseaddr,
      inheritable |-> FALSE ]

RunningOn(form) ==
    CASE form = "unix"         -> "Uvicorn running on unix socket %s (Press CTRL+C to quit)"
      [] form = "socket"       -> "Uvicorn running on socket %s (Press CTRL+C to quit)"
      [] form = "%s://%s:%d"   -> "Uvicorn running on %s://%s:%d (Press CTRL+C to quit)"
      [] form = "%s://[%s]:%d" -> "Uvicorn running on %s://[%s]:%d (Press CTRL+C to quit)"

\* lines 437-439
Announce(lg, strategy, sock, form, logger_args) ==
    [ log |-> Append(lg, Entry("info", RunningOn(form), logger_args)),
      out |-> "returned", strategy |-> strategy,
      sock |-> Some([sock EXCEPT !.inheritable = TRUE]) ]

\* lines 390-392 and 425-427
BindFailed(lg, strategy) ==
    [ log |-> Append(lg, Entry("error", "OSError", <<>>)),
      out |-> "exit", strategy |-> strategy, sock |-> None ]

\* lines 384-401
BindUnix(c, lg) ==
    IF c.uds[1] \in BusyPaths THEN BindFailed(lg, "uds")
    ELSE Announce(lg, "uds", Socket("uds", "AF_UNIX", 1, FALSE), "unix", <<c.uds[1]>>)

\* lines 403-411
WrapDescriptor(c, lg) ==
    IF c.fd[1] \notin OpenFds
    THEN [log |-> lg, out |-> "OSError", strategy |-> "fd", sock |-> None]
    ELSE Announce(lg, "fd", Socket("fd", "AF_UNIX", 0, FALSE), "socket",
                  <<SockName(c.fd[1])>>)

\* line 416
IsIPv6(host) == host # <<>> /\ ":" \in Range(host)

\* lines 413-436
BindHostPort(c, lg) ==
    LET family      == IF IsIPv6(c.host) THEN "AF_INET6" ELSE "AF_INET"
        addr_format == IF IsIPv6(c.host) THEN "%s://[%s]:%d" ELSE "%s://%s:%d"
        protocol_name == IF is_ssl(c) THEN "https" ELSE "http"
    IN  IF c.port \in BusyPorts THEN BindFailed(lg, "host")
        ELSE Announce(lg, "host", Socket("host", family, 1, TRUE), addr_format,
                      <<protocol_name, c.host, BoundPort(c.port)>>)

\* Config.bind_socket
bind_socket(c, lg) ==
    IF TruthyStr(c.uds) THEN BindUnix(c, lg)
    ELSE IF TruthyInt(c.fd) THEN WrapDescriptor(c, lg)
    ELSE BindHostPort(c, lg)

----------------------------------------------------------------------------
(* The arguments a Config is built from.                                   *)

RawNone == [tag |-> "none", v |-> <<>>]
RawStr(e) == [tag |-> "str", v |-> <<e>>]
RawList(es) == [tag |-> "list", v |-> es]

SeqsUpTo(E, n) == UNION {[1..k -> E] : k \in 0..n}

\* None, one string, or a list, of at most n entries drawn from E
RawInputs(E, n) ==
    {RawNone} \cup {RawList(es) : es \in SeqsUpTo(E, n)}
              \cup (IF n >= 1 THEN {RawStr(e) : e \in E} ELSE {})

DirEntries == {".", "app/sub", "ghost"}
IncEntries == {"*.py", "*.txt", "app"}
ExcEntries == {"*.py", "*.txt", "app", ".", ".."}

NoLogLevel == [tag |-> "none", s |-> "", n |-> 0]
LogLevelName(s) == [tag |-> "str", s |-> s, n |-> 0]
LogLevelInt(n) == [tag |-> "int", s |-> "", n |-> n]

NoEnviron == [WEB_CONCURRENCY |-> None, FORWARDED_ALLOW_IPS |-> None]

Host4 == <<"1", "2", "7", ".", "0", ".", "0", ".", "1">>
Host6 == <<":", ":", "1">>

\* the defaults of lines 58-106
Defaults ==
    [ app |-> Obj("async_fn"), host |-> Host4, port |-> 8000, uds |-> None,
      fd |-> None, http |-> Str("auto"), ws |-> Str("auto"),
      lifespan |-> Str("auto"), log_config |-> Some(LOGGING_CONFIG),
      log_level |-> NoLogLevel, interface |-> "auto", reload |-> FALSE,
      reload_dirs |-> RawNone, reload_includes |-> RawNone,
      reload_excludes |-> RawNone, workers |-> None, proxy_headers |-> TRUE,
      server_header |-> TRUE, forwarded_allow_ips |-> None,
      ssl_keyfile |-> None, ssl_certfile |-> None, headers |-> <<>>,
      factory |-> FALSE, environ |-> NoEnviron ]

InterfaceType == {"auto", "asgi3", "asgi2", "wsgi"}

\* reload scopes: every split of MaxEntries entries over the three lists
ReloadArgs ==
    UNION { UNION { { [Defaults EXCEPT !.app = Str("main:app"), !.reload = TRUE,
                          !.reload_dirs = d, !.reload_includes = i,
                          !.reload_excludes = e]
                      : e \in RawInputs(ExcEntries, MaxEntries - Len(d.v) - Len(i.v)) }
                    : i \in RawInputs(IncEntries, MaxEntries - Len(d.v)) }
            : d \in RawInputs(DirEntries, MaxEntries) }

\* reload inputs without the conditions for reloading, and worker counts
NoReloadArgs ==
    { [Defaults EXCEPT !.app = a, !.reload = r, !.reload_dirs = d, !.workers = w,
          !.environ = [NoEnviron EXCEPT !.WEB_CONCURRENCY = wc]]
      : a \in {Str("main:app"), Obj("async_fn")}, r \in BOOLEAN,
        d \in {RawNone, RawStr("app")}, w \in {None, Some(0), Some(4)},
        wc \in {None, Some(2)} }

\* the three protocol bindings, by name and by type
ProtocolArgs ==
    { [Defaults EXCEPT !.http = h, !.ws = w, !.lifespan = l, !.interface = i]
      : h \in {Str("auto"), Str("h11"), Str("httptools"), Str("h3"), Type("MyHTTP")},
        w \in {Str("auto"), Str("none"), Str("wsproto"), Type("MyWS")},
        l \in {Str("auto"), Str("off"), Type("MyLifespan")},
        i \in InterfaceType }

Logging ==
    { [log_config |-> Some(LOGGING_CONFIG), log_level |-> NoLogLevel],
      [log_config |-> None, log_level |-> NoLogLevel],
      [log_config |-> Some(LOGGING_CONFIG), log_level |-> LogLevelName("trace")],
      [log_config |-> None, log_level |-> LogLevelInt(10)] }

Proxying ==
    { [proxy_headers |-> FALSE, forwarded_allow_ips |-> None, env |-> None],
      [proxy_headers |-> TRUE, forwarded_allow_ips |-> None, env |-> None],
      [proxy_headers |-> TRUE, forwarded_allow_ips |-> None, env |-> Some("*")],
      [proxy_headers |-> TRUE, forwarded_allow_ips |-> Some("10.0.0.1"),
       env |-> Some("*")] }

\* applications, factories, interfaces and middleware
AppArgs ==
    { [Defaults EXCEPT !.app = a, !.factory = f, !.interface = i, !.ws = w,
          !.log_config = lg.log_config, !.log_level = lg.log_level,
          !.proxy_headers = px.proxy_headers,
          !.forwarded_allow_ips = px.forwarded_allow_ips,
          !.environ = [NoEnviron EXCEPT !.FORWARDED_ALLOW_IPS = px.env]]
      : a \in {Obj(o) : o \in DOMAIN Objects}
              \cup {Str("main:app"), Str("main:legacy"), Str("main:create_app"),
                    Str("missing:app")},
        f \in BOOLEAN, i \in InterfaceType, w \in {Str("auto"), Type("MyWS")},
        lg \in Logging, px \in Proxying }

\* TLS files and response headers
TlsArgs ==
    { [Defaults EXCEPT !.ssl_keyfile = k, !.ssl_certfile = c, !.headers = hs,
          !.server_header = sh]
      : k \in {None, Some("key.pem")}, c \in {None, Some("cert.pem")},
        hs \in {<<>>, <<<<"X-App", "1">>>>, <<<<"Server", "mine">>, <<"X-App", "1">>>>},
        sh \in BOOLEAN }

\* listening addresses
SocketArgs ==
    { [Defaults EXCEPT !.uds = u, !.fd = f, !.host = h, !.port = p, !.ssl_certfile = c]
      : u \in {None, Some(""), Some("/tmp/uvicorn.sock"), Some("/run/taken.sock")},
        f \in {None, Some(0), Some(3), Some(9)},
        h \in {Host4, Host6, <<>>}, p \in {0, 8000, 80},
        c \in {None, Some("cert.pem")} }

Args == ReloadArgs \cup NoReloadArgs \cup ProtocolArgs \cup AppArgs \cup TlsArgs
        \cup SocketArgs

----------------------------------------------------------------------------
(* The state machine.                                                      *)

NoConfig == [loaded |-> FALSE]
NoResult ==
    [ op |-> "", out |-> "", lookups |-> <<>>, strategy |-> "", sock |-> None,
      logged |-> 0 ]

Init ==
    /\ pc = "new"
    /\ args \in Args
    /\ self = NoConfig
    /\ logger_level = 0
    /\ log = <<>>
    /\ exit_status = None
    /\ result = NoResult
    /\ ncalls = 0

\* Config(**args)
Construct ==
    /\ pc = "new"
    /\ LET built == Config__init__(args)
       IN  /\ self' = built.self
           /\ log' = log \o built.log
    /\ logger_level' = configure_logging(args, logger_level)
    /\ pc' = "ready"
    /\ UNCHANGED <<args, exit_status, result, ncalls>>

\* what a call leaves of the process: sys.exit(1) ends it, an exception goes
\* to the caller
Ended(out) ==
    /\ pc' = IF out = "exit" THEN "exited" ELSE pc
    /\ exit_status' = IF out = "exit" THEN Some(1) ELSE exit_status

\* config.load()
Load ==
    /\ pc = "ready"
    /\ ncalls < MaxCalls
    /\ LET m == Config_load(self, log, logger_level)
       IN  /\ self' = m.self
           /\ log' = m.log
           /\ result' = [NoResult EXCEPT !.op = "load", !.out = m.out,
                                         !.lookups = m.lookups,
                                         !.logged = Len(m.log) - Len(log)]
           /\ Ended(m.out)
    /\ ncalls' = ncalls + 1
    /\ UNCHANGED <<args, logger_level>>

\* config.bind_socket()
BindSocket ==
    /\ pc = "ready"
    /\ ncalls < MaxCalls
    /\ LET b == bind_socket(self, log)
       IN  /\ log' = b.log
           /\ result' = [NoResult EXCEPT !.op = "bind_socket", !.out = b.out,
                                         !.strategy = b.strategy, !.sock = b.sock,
                                         !.logged = Len(b.log) - Len(log)]
           /\ Ended(b.out)
    /\ ncalls' = ncalls + 1
    /\ UNCHANGED <<args, self, logger_level>>

Next == Construct \/ Load \/ BindSocket

Spec == Init /\ [][Next]_vars

----------------------------------------------------------------------------
(* Properties.                                                             *)

Built == pc # "new"
Reloading == Built /\ should_reload(args.app, args.reload)
LastLog == log[Len(log)]

\* the object the application argument names, before any factory call
Referenced == import_from_string(self.app).value.v

\* C1: with reload enabled and a string app reference, no directory of the
\* final reload_dirs equals, or lies below, a directory of
\* reload_dirs_excludes; this includes the working directory the empty scope
\* falls back to.
C1_TreeExclusion ==
    Reloading =>
        \A w \in Range(self.reload_dirs), e \in Range(self.reload_dirs_excludes) :
            ~(e = w \/ InParents(e, w))

\* the fields load() resolves
Resolved(c) ==
    << c.http_protocol_class, c.ws_protocol_class, c.lifespan_class, c.loaded_app,
       c.ssl, c.encoded_headers, c.interface, c.assigned >>

LoadStep == ncalls' = ncalls + 1 /\ result'.op = "load"

\* C2: once a load() has set loaded, every later step leaves the resolved
\* fields as they are, and every later load() raises AssertionError having
\* changed nothing of the instance, the log or the process.
C2_DoubleLoadGuard ==
    [][ self.loaded =>
            /\ self'.loaded
            /\ Resolved(self') = Resolved(self)
            /\ LoadStep => /\ result'.out = "AssertionError"
                           /\ result'.lookups = <<>>
                           /\ self' = self
                           /\ log' = log
                           /\ pc' = pc
                           /\ exit_status' = exit_status ]_vars

C2_SecondLoadRejected ==
    /\ self.loaded
    /\ result.op = "load"
    /\ result.out = "AssertionError"

\* C3: a load() whose HTTP name is not in the registry, or names a reference
\* that cannot be imported, logs the failure at error level and ends the
\* process with status 1, leaving no instance with resolved fields and
\* loaded still false to a running caller.
C3_FatalOnUnresolvableHttp ==
    ( /\ result.op = "load"
      /\ "http" \in Range(result.lookups)
      /\ Resolve(HTTP_PROTOCOLS, self.http).exc # "" )
    => /\ result.out = "exit"
       /\ pc = "exited"
       /\ exit_status = Some(1)
       /\ log # <<>> /\ LastLog.level = "error"

UnixPathSupplied == self.uds # None /\ self.uds[1] # ""

\* C4: bind_socket uses the Unix strategy whenever a Unix path is supplied,
\* else wraps the descriptor, with no bind call, whenever a descriptor is
\* supplied (0 included), else binds host and port.
C4_TransportPrecedence ==
    result.op = "bind_socket" =>
        /\ UnixPathSupplied => result.strategy = "uds"
        /\ (~UnixPathSupplied /\ self.fd # None) =>
               /\ result.strategy = "fd"
               /\ result.sock # None => result.sock[1].binds = 0
        /\ (~UnixPathSupplied /\ self.fd = None) => result.strategy = "host"

Count(seq, x) == Cardinality({i \in 1..Len(seq) : seq[i] = x})

\* C5 as stated: each of the three bindings given as a concrete type is stored
\* as that type, with no registry lookup.
C5_ConcreteTypeVerbatim ==
    result.op = "load" =>
        /\ self.http.tag = "type" =>
               /\ "http" \notin Range(result.lookups)
               /\ result.out = "returned" => self.http_protocol_class = self.http
        /\ self.ws.tag = "type" =>
               /\ "ws" \notin Range(result.lookups)
               /\ result.out = "returned" => self.ws_protocol_class = self.ws
        /\ self.lifespan.tag = "type" =>
               /\ "lifespan" \notin Range(result.lookups)
               /\ result.out = "returned" => self.lifespan_class = self.lifespan

\* C5: an HTTP or WebSocket binding given as a concrete type is stored as that
\* type with no registry lookup (the WebSocket class is then replaced by none
\* when the interface is wsgi); one given by name goes through its registry;
\* lifespan always goes through its registry, so that a load() given a
\* lifespan type does not return; no binding is looked up twice in one load.
C5_ConcreteHttpWsVerbatim ==
    result.op = "load" =>
        /\ self.http.tag = "type" =>
               /\ "http" \notin Range(result.lookups)
               /\ "http_protocol_class" \in self.assigned
                      => self.http_protocol_class = self.http
        /\ self.ws.tag = "type" =>
               /\ "ws" \notin Range(result.lookups)
               /\ result.out = "returned" =>
                      self.ws_protocol_class =
                          IF self.interface = "wsgi" THEN NoneV ELSE self.ws
        /\ result.out = "returned" =>
               /\ "lifespan" \in Range(result.lookups)
               /\ self.lifespan.tag = "str"
               /\ self.http.tag = "str" => "http" \in Range(result.lookups)
               /\ self.ws.tag = "str" => "ws" \in Range(result.lookups)
        /\ \A b \in {"http", "ws", "lifespan"} : Count(result.lookups, b) <= 1

C5_TypesSupplied ==
    /\ result.op = "load"
    /\ result.out = "returned"
    /\ self.http.tag = "type"
    /\ self.ws.tag = "type"
    /\ self.ws_protocol_class = self.ws

\* C6: after a successful load() interface is asgi2, asgi3 or wsgi; it is wsgi
\* exactly when wsgi was requested; detection gives asgi3 for a coroutine
\* function and asgi2 for an object whose __call__ is no coroutine function;
\* and under wsgi the WebSocket class is none whatever ws was given.
C6_InterfaceResolution ==
    self.loaded =>
        /\ self.interface \in {"asgi2", "asgi3", "wsgi"}
        /\ self.interface = "wsgi" <=> args.interface = "wsgi"
        /\ self.interface = "wsgi" => self.ws_protocol_class = NoneV
        /\ args.interface = "auto" =>
               LET obj == Objects[Handle(self)]
               IN  /\ (obj.kind = "function" /\ obj.is_coroutine)
                          => self.interface = "asgi3"
                   /\ (obj.kind = "object" /\ ~obj.call_is_coroutine)
                          => self.interface = "asgi2"

C6_WsgiWithWsType ==
    /\ self.loaded
    /\ self.interface = "wsgi"
    /\ self.ws.tag = "type"

\* C7: with reload enabled and a string app reference, no pattern of
\* reload_excludes is left anywhere in reload_includes, and every include
\* pattern that equals no exclude pattern is still in reload_includes.
C7_PatternExactMatch ==
    Reloading =>
        /\ \A p \in Range(self.reload_excludes) : p \notin Range(self.reload_includes)
        /\ \A p \in Range(ResolvedPatterns(_normalize_dirs(args.reload_includes))) :
               p \notin Range(self.reload_excludes) => p \in Range(self.reload_includes)

C7_PatternRemovedOtherKept ==
    /\ Reloading
    /\ \E p \in Range(_normalize_dirs(args.reload_includes)) :
           p \in Range(self.reload_excludes)
    /\ self.reload_includes # <<>>

\* C8: with factory set, a failing zero-argument call of the application
\* reference is logged at error level and ends the process with status 1,
\* loaded staying false; without it, a TypeError keeps the reference as the
\* handle and a successful call is used as the handle, with a warning.
C8_FactoryFailureFatal ==
    ( /\ result.op = "load"
      /\ result.out # "AssertionError"
      /\ "loaded_app" \in self.assigned )
    => LET called == Objects[Referenced].call0
       IN  /\ (self.factory /\ called \notin DOMAIN Objects) =>
                  /\ result.out = "exit"
                  /\ exit_status = Some(1)
                  /\ LastLog.level = "error"
                  /\ ~self.loaded
           /\ (~self.factory /\ called = "TypeError") =>
                  /\ result.out = "returned"
                  /\ Handle(self) = Referenced
           /\ (~self.factory /\ called \in DOMAIN Objects) =>
                  /\ result.out = "returned"
                  /\ Handle(self) = called
                  /\ \E i \in 1..Len(log) : log[i].level = "warning"

\* the chain load() is to build around the handle
ExpectedChain ==
    LET called == Objects[Referenced].call0
        handle == IF called \in DOMAIN Objects THEN called ELSE Referenced
    IN  <<Layer("app", handle)>>
        \o (CASE self.interface = "wsgi"  -> <<Layer("WSGIMiddleware", "")>>
              [] self.interface = "asgi2" -> <<Layer("ASGI2Middleware", "")>>
              [] OTHER                    -> <<>>)
        \o (IF logger_level <= TRACE_LOG_LEVEL
            THEN <<Layer("MessageLoggerMiddleware", "")>> ELSE <<>>)
        \o (IF self.proxy_headers
            THEN <<Layer("ProxyHeadersMiddleware", self.forwarded_allow_ips)>>
            ELSE <<>>)

C10_BindOutcomes ==
    result.op = "bind_socket" =>
        \/ /\ result.out = "returned"
           /\ pc = "ready"
           /\ result.sock # None
           /\ result.sock[1].inheritable
           /\ result.logged = 1
           /\ LastLog.level = "info"
           /\ LastLog.msg =
                  RunningOn(CASE result.strategy = "uds" -> "unix"
                              [] result.strategy = "fd"  -> "socket"
                              [] OTHER -> IF ":" \in Range(self.host)
                                          THEN "%s://[%s]:%d" ELSE "%s://%s:%d")
        \/ /\ result.out = "exit"
           /\ pc = "exited"
           /\ exit_status = Some(1)
           /\ result.sock = None
           /\ result.logged = 1
           /\ LastLog.level = "error"
====
